---------------------------- MODULE Spec2Model ----------------------------
(***************************************************************************)
(* Model of FlintDatabaseReplicator (backends/flint/                       *)
(* flint_databasereplicator.cc): applying one changeset, read off a        *)
(* RemoteConnection, to the table files of a replica directory.            *)
(*                                                                         *)
(* Bytes are the naturals 0..255, strings are sequences of bytes.  A       *)
(* directory is a partial map from paths to file contents.  Each caller    *)
(* (process) runs apply_changeset_from_conn step by step; a step is one    *)
(* transport read together with the parsing that follows it, or one file   *)
(* operation.  An exception and the unwinding it causes (fdcloser, the     *)
(* FlintLock destructor) are part of the step that throws.                 *)
(***************************************************************************)
EXTENDS Integers, Sequences, FiniteSets, TLC

(***************************************************************************)
(* Bounds of the model.                                                    *)
(***************************************************************************)
\* longest chunk list of the enumerated changesets
MaxChunks == 2

\* bytes the transport may deliver beyond what a read asked for
MaxReadAhead == 1

\* what a header/chunk-loop read asks for.  The program asks for 1024; the
\* model keeps what the code relies on: every fixed-size parse unit (header,
\* chunk head, footer) is shorter than one such read.
REASONABLE_CHANGESET_SIZE == 7

(***************************************************************************)
(* Program constants.                                                      *)
(***************************************************************************)
\* "FlintChanges" in the program; a two-byte marker here
CHANGES_MAGIC_STRING == <<70, 67>>
CHANGES_VERSION == 1
Procs == {1, 2}
Dirs == {1, 2}

Min(a, b) == IF a < b THEN a ELSE b
Take(s, n) == SubSeq(s, 1, Min(n, Len(s)))
Drop(s, n) == SubSeq(s, Min(n, Len(s)) + 1, Len(s))

(***************************************************************************)
(* The byte codec (flint_utils.h): little-endian base-128 integers with a  *)
(* continuation bit, and strings prefixed by their length.                 *)
(***************************************************************************)
RECURSIVE PackLoop(_)
PackLoop(value) ==
    IF value = 0 THEN <<>>
    ELSE LET part == value % 128
             rest == value \div 128
         IN  <<IF rest # 0 THEN part + 128 ELSE part>> \o PackLoop(rest)

F_pack_uint(value) == IF value = 0 THEN <<0>> ELSE PackLoop(value)

F_pack_string(s) == F_pack_uint(Len(s)) \o s

\* [ok, val, len]: len is the number of bytes consumed from the front of s
RECURSIVE UnpackLoop(_, _, _, _)
UnpackLoop(s, i, acc, mult) ==
    IF i > Len(s) THEN [ok |-> FALSE, val |-> 0, len |-> 0]
    ELSE LET part == s[i]
             acc2 == acc + (part % 128) * mult
         IN  IF part < 128 THEN [ok |-> TRUE, val |-> acc2, len |-> i]
             ELSE UnpackLoop(s, i + 1, acc2, mult * 128)

F_unpack_uint(s) == UnpackLoop(s, 1, 0, 1)

\* [ok, val, len]
F_unpack_string(s) ==
    LET n == F_unpack_uint(s)
    IN  IF ~n.ok \/ Len(s) - n.len < n.val
        THEN [ok |-> FALSE, val |-> <<>>, len |-> 0]
        ELSE [ok |-> TRUE, val |-> SubSeq(s, n.len + 1, n.len + n.val),
              len |-> n.len + n.val]

startswith(s, prefix) == Len(s) >= Len(prefix) /\ Take(s, Len(prefix)) = prefix

\* any character will do in a table name
AnyCharacter(name) == TRUE

\* tablename.find_first_not_of("abcdefghijklmnopqrstuvwxyz") == npos
OnlyLowercase(name) == \A i \in 1..Len(name) : name[i] \in 97..122

(***************************************************************************)
(* The changesets fed to the replica.  A changeset is kept as a record and *)
(* encoded to the bytes of one message by Encode, in the wire format the   *)
(* decoder below reads.  A chunk is                                        *)
(*   [type, name, letter, content]  (type 1, base file) or                 *)
(*   [type, name, blocksize, blocks]  (type 2; blocks a sequence of        *)
(*   <<tag, bytes>>) or [type, name] for any other type.                   *)
(***************************************************************************)
TableA == <<97>>
TableB == <<98>>
LetterA == 65
LetterB == 66

BaseChunk(name, letter, content) ==
    [type |-> 1, name |-> name, letter |-> letter, content |-> content]

\* the k-th block of a chunk carries the bytes <<20 + 2k, 21 + 2k>>
BlockChunk(name, tags) ==
    [type |-> 2, name |-> name, blocksize |-> 2,
     blocks |-> [k \in 1..Len(tags) |-> <<tags[k], <<20 + 2 * k, 21 + 2 * k>>>>]]

OtherChunk(type, name) == [type |-> type, name |-> name]

RECURSIVE EncodeBlocks(_)
EncodeBlocks(blocks) ==
    IF blocks = <<>> THEN <<>>
    ELSE F_pack_uint(Head(blocks)[1]) \o Head(blocks)[2] \o EncodeBlocks(Tail(blocks))

EncodeChunk(c) ==
    <<c.type>> \o F_pack_string(c.name) \o
    (IF c.type = 1
     THEN <<c.letter>> \o F_pack_uint(Len(c.content)) \o c.content
     ELSE IF c.type = 2
     THEN F_pack_uint(c.blocksize) \o EncodeBlocks(c.blocks) \o <<0>>
     ELSE <<>>)

RECURSIVE EncodeChunks(_)
EncodeChunks(cs) ==
    IF cs = <<>> THEN <<>> ELSE EncodeChunk(Head(cs)) \o EncodeChunks(Tail(cs))

EncodeHeader(c) ==
    c.magic \o F_pack_uint(c.version) \o F_pack_uint(c.startrev) \o
    F_pack_uint(c.endrev) \o <<c.kind>>

EncodeAll(c) ==
    EncodeHeader(c) \o EncodeChunks(c.chunks) \o <<0>> \o F_pack_uint(c.reqrev) \o c.junk

\* the message: the encoding, cut after c.cut bytes when c.cut >= 0
Encode(c) == IF c.cut < 0 THEN EncodeAll(c) ELSE Take(EncodeAll(c), c.cut)

GoodChangeset(chunks) ==
    [magic |-> CHANGES_MAGIC_STRING, version |-> CHANGES_VERSION, startrev |-> 5,
     endrev |-> 6, kind |-> 0, chunks |-> chunks, reqrev |-> 6, junk |-> <<>>,
     cut |-> -1]

BaseA == BaseChunk(TableA, LetterA, <<11, 12>>)
BaseA2 == BaseChunk(TableA, LetterA, <<13>>)
BaseB == BaseChunk(TableB, LetterB, <<>>)
BlocksA == BlockChunk(TableA, <<2, 1, 2>>)
BlocksB == BlockChunk(TableB, <<1>>)

\* well-formed chunks, combined in every order up to MaxChunks
ChunkAlphabet == {BaseA, BaseA2, BlocksA, BlocksB}

ChunkLists ==
    UNION {[1..n -> ChunkAlphabet] : n \in 0..MaxChunks}
    \cup {<<BaseB>>, <<BlockChunk(TableA, <<3, 1>>)>>, <<BlockChunk(TableA, <<>>)>>,
          <<BlockChunk(TableB, <<3, 3>>)>>}

\* malformed chunks: unknown tags, bad table names, bad letter, bad block size
BadChunks ==
    {OtherChunk(3, TableA), OtherChunk(255, TableB),
     BaseChunk(<<>>, LetterA, <<11>>), BaseChunk(<<65>>, LetterA, <<11>>),
     BaseChunk(<<97, 45>>, LetterA, <<11>>),
     BaseChunk(TableA, 67, <<11>>),
     BlockChunk(<<>>, <<1>>), BlockChunk(<<96>>, <<1>>), OtherChunk(3, <<123>>)}

BadChunkLists ==
    UNION {{<<x>>, <<BaseA, x>>, <<x, BaseA>>, <<BlocksA, x>>} : x \in BadChunks}

Good0 == GoodChangeset(<<BaseA>>)
Good2 == GoodChangeset(<<BaseA, BlocksA>>)

\* one defect at a time in the header or the footer of a one-chunk changeset
HeaderDefects ==
    {[Good0 EXCEPT !.magic = m] : m \in {<<70, 68>>, <<71, 67>>, <<70>>, <<>>}}
    \cup {[Good0 EXCEPT !.version = 2]}
    \cup {[Good0 EXCEPT !.startrev = 6], [Good0 EXCEPT !.startrev = 7]}
    \cup {[Good0 EXCEPT !.kind = 1]}

FooterDefects ==
    {[Good0 EXCEPT !.reqrev = 5], [Good0 EXCEPT !.reqrev = 200],
     [Good0 EXCEPT !.junk = <<0>>], [Good0 EXCEPT !.reqrev = 200, !.junk = <<7>>]}

\* a two-chunk changeset cut short at every length
Truncated == {[Good2 EXCEPT !.cut = n] : n \in 0..(Len(EncodeAll(Good2)) - 1)}

Changesets ==
    {GoodChangeset(l) : l \in ChunkLists}
    \cup {GoodChangeset(l) : l \in BadChunkLists}
    \cup HeaderDefects \cup FooterDefects \cup Truncated

\* the changesets two callers are given at once
SharedChangesets == {Good2, GoodChangeset(<<BlockChunk(TableB, <<3, 3>>)>>)}

\* the changesets given to two replicators that differ in max_changesets only
PairedChangesets ==
    {GoodChangeset(<<BlocksB, BaseA2>>),
     GoodChangeset(<<BaseA, OtherChunk(3, TableA)>>),
     GoodChangeset(<<BlocksA, BaseChunk(<<97, 45>>, LetterA, <<11>>)>>),
     [Good0 EXCEPT !.kind = 1],
     [Good0 EXCEPT !.reqrev = 5],
     [Good0 EXCEPT !.junk = <<0>>],
     [Good2 EXCEPT !.cut = 20]}

(***************************************************************************)
(* Paths inside a database directory, as the byte strings the code builds. *)
(***************************************************************************)
RECURSIVE Digits(_)
Digits(n) == IF n < 10 THEN <<48 + n>> ELSE Digits(n \div 10) \o <<48 + (n % 10)>>

\* str(n)
str(n) == Digits(n)

\* the new content is written straight to the base file A
TmpPathIsBasePath(tablename) == tablename \o <<46, 98, 97, 115, 101, 65>>

\* tablename + "tmp"
TmpPath(tablename) == tablename \o <<116, 109, 112>>

\* tablename + ".base" + letter
BasePath(tablename, letter) == tablename \o <<46, 98, 97, 115, 101>> \o <<letter>>

\* tablename + ".DB"
DbPath(tablename) == tablename \o <<46, 68, 66>>

\* "changes" + str(startrev)
ChangesPath(rev) == <<99, 104, 97, 110, 103, 101, 115>> \o str(rev)

\* a directory: the files present, each with its content
Exists(dir, path) == path \in DOMAIN dir
PutFile(dir, path, content) ==
    [q \in DOMAIN dir \cup {path} |-> IF q = path THEN content ELSE dir[q]]
RemoveFile(dir, path) == [q \in DOMAIN dir \ {path} |-> dir[q]]

\* the replica before the changeset: table a has a base file A and a data
\* file of two and a half blocks of two bytes; table b has no file yet
InitialFiles ==
    PutFile(PutFile(<<>>, BasePath(TableA, LetterA), <<9, 9, 9>>),
            DbPath(TableA), <<1, 2, 3, 4, 5>>)

(***************************************************************************)
(* State.                                                                  *)
(***************************************************************************)
VARIABLES
    cs,              \* the changeset the primary sends (kept for the properties)
    stream,          \* the bytes of the REPL_REPLY_CHANGESET message
    valid,           \* valid[p]: the caller's "valid" argument
    max_changesets,  \* max_changesets[p]: the replicator's member
    db_dir,          \* db_dir[p]: the replicator's member
    record_revision, \* record_revision[d]: what the record table of d reports
    fs,              \* fs[d]: the files of directory d
    lockHolders,     \* lockHolders[d]: the callers holding the lock of d
    pos,             \* pos[p]: bytes of the message conn has handed out
    pc,              \* pc[p]: where caller p is in apply_changeset_from_conn
    local,           \* local[p]: the locals of the call
    buf,             \* buf[p]: the local string buf
    err,             \* err[p]: the exception that ended the call
    result,          \* result[p]: the string returned
    archived,        \* archived[p]: the bytes the call wrote through changes_fd
    ops,             \* ops[p]: the file operations the call made, in order
    faulted          \* faulted[p]: a file operation of the call failed

config == <<cs, stream, valid, max_changesets, db_dir, record_revision>>
vars == <<cs, stream, valid, max_changesets, db_dir, record_revision, fs,
          lockHolders, pos, pc, local, buf, err, result, archived, ops, faulted>>

NoError == [class |-> "none", msg |-> ""]

InitLocal ==
    [ptr |-> 0, startrev |-> 0, endrev |-> 0, changes_fd |-> -1,
     changes_name |-> <<>>, tablename |-> <<>>, letter |-> 0, base_size |-> 0,
     changeset_blocksize |-> 0, block_number |-> 0, fd |-> -1]

\* the runs enumerated: the caller's flag, the replica's revision and the
\* XAPIAN_MAX_CHANGESETS the constructor read
Configs ==
    {[valid |-> v, rev |-> r, mc |-> m] : v \in BOOLEAN, r \in {4, 5}, m \in {0, 2}}
    \cup {[valid |-> FALSE, rev |-> 5, mc |-> -1]}

SharedConfigs == {[valid |-> FALSE, rev |-> 5, mc |-> 2]}

\* the replicator of caller 1 in the paired runs: it keeps no changesets
PairedConfigs == {k \in Configs : k.mc = 0 /\ (k.valid \/ k.rev = 5)}

\* one caller; two callers on one database; two replicators, each on its own
\* copy of the database, of which only the second keeps changesets
Modes == {"single", "shared", "paired"}

Init ==
    \E c \in Changesets, k \in Configs, mode \in Modes :
        /\ mode = "shared" => (c \in SharedChangesets /\ k \in SharedConfigs)
        /\ mode = "paired" => (c \in PairedChangesets /\ k \in PairedConfigs)
        /\ cs = c
        /\ stream = Encode(c)
        /\ valid = [p \in Procs |-> k.valid]
        /\ max_changesets =
              [p \in Procs |-> IF mode = "paired" /\ p = 2 THEN 2 ELSE k.mc]
        /\ db_dir = [p \in Procs |-> IF mode = "paired" THEN p ELSE 1]
        /\ record_revision = [d \in Dirs |-> k.rev]
        /\ fs = [d \in Dirs |-> InitialFiles]
        /\ lockHolders = [d \in Dirs |-> {}]
        /\ pos = [p \in Procs |-> 0]
        /\ pc = [p \in Procs |-> IF p = 1 \/ mode # "single" THEN "start" ELSE "idle"]
        /\ local = [p \in Procs |-> InitLocal]
        /\ buf = [p \in Procs |-> <<>>]
        /\ err = [p \in Procs |-> NoError]
        /\ result = [p \in Procs |-> <<>>]
        /\ archived = [p \in Procs |-> <<>>]
        /\ ops = [p \in Procs |-> <<>>]
        /\ faulted = [p \in Procs |-> FALSE]

(***************************************************************************)
(* Leaving the call.  The FlintLock is a local of the call: its destructor *)
(* releases the lock on return and when an exception unwinds the frame.    *)
(* The fdclosers close changes_fd and fd; buf and the other locals die.    *)
(***************************************************************************)
\* the lock outlives the call
LockKept(p) == lockHolders

\* the lock is released when the call is left
ReleaseLock(p) == [lockHolders EXCEPT ![db_dir[p]] = @ \ {p}]

Throw(p, class, msg) ==
    /\ pc' = [pc EXCEPT ![p] = "Failed"]
    /\ err' = [err EXCEPT ![p] = [class |-> class, msg |-> msg]]
    /\ lockHolders' = ReleaseLock(p)
    /\ local' = [local EXCEPT ![p] = InitLocal]
    /\ buf' = [buf EXCEPT ![p] = <<>>]
    /\ UNCHANGED result

Return(p, value) ==
    /\ pc' = [pc EXCEPT ![p] = "Done"]
    /\ result' = [result EXCEPT ![p] = value]
    /\ lockHolders' = ReleaseLock(p)
    /\ local' = [local EXCEPT ![p] = InitLocal]
    /\ buf' = [buf EXCEPT ![p] = <<>>]
    /\ UNCHANGED err

\* go on at label with the locals and the buffer given
Goto(p, label, newlocal, newbuf) ==
    /\ pc' = [pc EXCEPT ![p] = label]
    /\ local' = [local EXCEPT ![p] = newlocal]
    /\ buf' = [buf EXCEPT ![p] = newbuf]
    /\ UNCHANGED <<err, result, lockHolders>>

Log(p, entry) == [ops EXCEPT ![p] = Append(@, entry)]
Op(name, path, at, data) == [op |-> name, path |-> path, at |-> at, data |-> data]

(***************************************************************************)
(* The transport.  get_message_chunk(buf, at_least, end_time) appends      *)
(* bytes of the message to buf until buf holds at_least bytes or the       *)
(* message is over; it may hand out more than was asked for, and it throws *)
(* NetworkTimeoutError when it has to wait past end_time.                  *)
(***************************************************************************)
Remaining(p) == Len(stream) - pos[p]

Needed(p, b, at_least) ==
    IF at_least <= Len(b) THEN 0 ELSE Min(at_least - Len(b), Remaining(p))

Deliveries(p, b, at_least) ==
    IF at_least <= Len(b) THEN {0}
    ELSE Needed(p, b, at_least) ..
         Min(Remaining(p), Needed(p, b, at_least) + MaxReadAhead)

Received(p, b, k) == b \o SubSeq(stream, pos[p] + 1, pos[p] + k)

MayTimeOut(p, b, at_least) == Needed(p, b, at_least) > 0

Timeout(p) ==
    /\ Throw(p, "NetworkTimeoutError", "Timeout expired while trying to read")
    /\ UNCHANGED <<fs, pos, archived, ops, faulted>>

(***************************************************************************)
(* write_and_clear_changes(changes_fd, buf, bytes): when changes_fd is     *)
(* open, io_write the first bytes of buf to it; then erase them from buf.  *)
(***************************************************************************)
ChangesWritten(changes_fd, b, bytes) ==
    IF changes_fd # -1 THEN Take(b, bytes) ELSE <<>>

\* more: what the step does after the write, to be logged after it
AppendChanges(p, w, more) ==
    IF local[p].changes_fd = -1
    THEN /\ ops' = [ops EXCEPT ![p] = @ \o more]
         /\ UNCHANGED <<fs, archived>>
    ELSE LET name == local[p].changes_name
             old == fs[db_dir[p]][name]
         IN  /\ fs' = [fs EXCEPT ![db_dir[p]] = PutFile(@, name, old \o w)]
             /\ archived' = [archived EXCEPT ![p] = @ \o w]
             /\ ops' = [ops EXCEPT ![p] =
                           Append(@, Op("archive", name, Len(old), w)) \o more]

\* the write succeeds
ArchiveAnd(p, b, bytes, more) ==
    /\ AppendChanges(p, ChangesWritten(local[p].changes_fd, b, bytes), more)
    /\ UNCHANGED faulted

Archive(p, b, bytes) == ArchiveAnd(p, b, bytes, <<>>)

\* io_write throws after writing n < bytes bytes
ArchiveFault(p, b, bytes) ==
    /\ local[p].changes_fd # -1
    /\ bytes > 0
    /\ \E n \in 0..(bytes - 1) : AppendChanges(p, Take(b, n), <<>>)
    /\ faulted' = [faulted EXCEPT ![p] = TRUE]
    /\ Throw(p, "DatabaseError", "Error writing to file")

(***************************************************************************)
(* apply_changeset_from_conn, lines 243-249: take the database lock.       *)
(* Callers are numbered in the order they reach lock.lock().  Two callers   *)
(* on different databases share nothing: the second is run after the first *)
(* has ended, which loses no behaviour of either.                          *)
(***************************************************************************)
LockOutcomes(holders) ==
    IF holders = {} THEN {"SUCCESS", "UNKNOWN"} ELSE {"INUSE"}

\* the call goes on whatever lock() says
LockFailureIgnored(why) == FALSE

\* line 247: why != FlintLock::SUCCESS
LockFailed(why) == why # "SUCCESS"

Lock(p) ==
    /\ pc[p] = "start"
    /\ p = 1 \/ pc[1] # "start"
    /\ p = 1 \/ db_dir[p] = db_dir[1] \/ pc[1] \in {"Done", "Failed"}
    /\ \E why \in LockOutcomes(lockHolders[db_dir[p]]) :
          IF LockFailed(why)
          THEN /\ Throw(p, "DatabaseLockError", why)
               /\ faulted' = [faulted EXCEPT ![p] = (why # "INUSE")]
          ELSE /\ lockHolders' = [lockHolders EXCEPT ![db_dir[p]] =
                                     IF why = "SUCCESS" THEN @ \cup {p} ELSE @]
               /\ pc' = [pc EXCEPT ![p] = "get_type"]
               /\ UNCHANGED <<local, buf, err, result, faulted>>
    /\ UNCHANGED <<config, fs, pos, archived, ops>>

\* line 251: the message's type byte arrives, or the wait times out
GetMessageChunked(p) ==
    /\ pc[p] = "get_type"
    /\ \/ Goto(p, "read_header", local[p], buf[p]) /\ UNCHANGED <<fs, pos, archived, ops, faulted>>
       \/ Timeout(p)
    /\ UNCHANGED config

(***************************************************************************)
(* Lines 255-286: read and check the header.                               *)
(***************************************************************************)
\* the magic string is not looked at
MagicUnchecked(b) == Len(b) >= Len(CHANGES_MAGIC_STRING)
MagicOK(b) == startswith(b, CHANGES_MAGIC_STRING)

VersionOK(changes_version) == changes_version = CHANGES_VERSION

RevisionsOK(startrev, endrev) == ~(endrev <= startrev)

\* [error, startrev, endrev, ptr]: error is "" when the header is accepted
ParseHeader(b) ==
    LET r0 == Drop(b, Len(CHANGES_MAGIC_STRING))
        ver == F_unpack_uint(r0)
        r1 == Drop(r0, ver.len)
        s == F_unpack_uint(r1)
        r2 == Drop(r1, s.len)
        e == F_unpack_uint(r2)
        ptr == Len(CHANGES_MAGIC_STRING) + ver.len + s.len + e.len
        bad(m) == [error |-> m, startrev |-> 0, endrev |-> 0, ptr |-> 0]
    IN  IF ~MagicOK(b) THEN bad("Invalid ChangeSet magic string")
        ELSE IF ~ver.ok THEN bad("Couldn't read a valid version number from changeset")
        ELSE IF ~VersionOK(ver.val) THEN bad("Unsupported changeset version")
        ELSE IF ~s.ok THEN bad("Couldn't read a valid start revision from changeset")
        ELSE IF ~e.ok THEN bad("Couldn't read a valid end revision from changeset")
        ELSE IF ~RevisionsOK(s.val, e.val)
             THEN bad("End revision in changeset is not later than start revision")
        ELSE IF ptr = Len(b) THEN bad("Unexpected end of changeset (1)")
        ELSE [error |-> "", startrev |-> s.val, endrev |-> e.val, ptr |-> ptr]

ReadHeader(p) ==
    /\ pc[p] = "read_header"
    /\ \/ MayTimeOut(p, buf[p], REASONABLE_CHANGESET_SIZE) /\ Timeout(p)
       \/ \E k \in Deliveries(p, buf[p], REASONABLE_CHANGESET_SIZE) :
             LET b == Received(p, buf[p], k)
                 h == ParseHeader(b)
             IN  /\ pos' = [pos EXCEPT ![p] = @ + k]
                 /\ IF h.error # ""
                    THEN Throw(p, "NetworkError", h.error)
                    ELSE Goto(p, "create_changes",
                              [local[p] EXCEPT !.startrev = h.startrev,
                                               !.endrev = h.endrev, !.ptr = h.ptr], b)
                 /\ UNCHANGED <<fs, archived, ops, faulted>>
    /\ UNCHANGED config

\* changesets are kept whatever max_changesets is
KeepChangesetsAlways(max) == TRUE

\* lines 288-294: create the changeset file when changesets are kept
KeepChangesets(max) == max > 0

CreateChangesetFile(p) ==
    /\ pc[p] = "create_changes"
    /\ IF KeepChangesets(max_changesets[p])
       THEN LET name == ChangesPath(local[p].startrev)
            IN  \/ /\ fs' = [fs EXCEPT ![db_dir[p]] = PutFile(@, name, <<>>)]
                   /\ ops' = Log(p, Op("create", name, 0, <<>>))
                   /\ Goto(p, "check_revision",
                           [local[p] EXCEPT !.changes_fd = 3, !.changes_name = name],
                           buf[p])
                   /\ UNCHANGED faulted
                \/ /\ Throw(p, "DatabaseError", "Couldn't open changeset to write")
                   /\ faulted' = [faulted EXCEPT ![p] = TRUE]
                   /\ UNCHANGED <<fs, ops>>
       ELSE /\ Goto(p, "check_revision", local[p], buf[p])
            /\ UNCHANGED <<fs, ops, faulted>>
    /\ UNCHANGED <<config, pos, archived>>

\* the revision is checked whatever the caller says
RevisionAlwaysChecked(isvalid, startrev, open_revision) == startrev # open_revision

\* lines 296-305: the revision check, made only for a valid database
WrongRevision(isvalid, startrev, open_revision) ==
    isvalid /\ startrev # open_revision

CheckRevision(p) ==
    /\ pc[p] = "check_revision"
    /\ \/ /\ WrongRevision(valid[p], local[p].startrev, record_revision[db_dir[p]])
          /\ Throw(p, "NetworkError", "Changeset supplied is for wrong revision number")
          /\ ops' = Log(p, Op("read_revision", <<>>, 0, <<>>))
          /\ UNCHANGED faulted
       \/ /\ ~WrongRevision(valid[p], local[p].startrev, record_revision[db_dir[p]])
          /\ Goto(p, "check_type", local[p], buf[p])
          /\ ops' = IF valid[p] THEN Log(p, Op("read_revision", <<>>, 0, <<>>)) ELSE ops
          /\ UNCHANGED faulted
       \/ /\ valid[p]
          /\ Throw(p, "DatabaseOpeningError", "Failed to open table for reading")
          /\ faulted' = [faulted EXCEPT ![p] = TRUE]
          /\ UNCHANGED ops
    /\ UNCHANGED <<config, fs, pos, archived>>

\* any changeset type is taken
AnyChangesType(changes_type) == TRUE

\* lines 307-315: the changeset type, then archive the header
ChangesTypeOK(changes_type) == changes_type = 0

CheckType(p) ==
    /\ pc[p] = "check_type"
    /\ LET ptr == local[p].ptr
       IN  IF ~ChangesTypeOK(buf[p][ptr + 1])
           THEN /\ Throw(p, "NetworkError", "Unsupported changeset type")
                /\ UNCHANGED <<fs, archived, ops, faulted>>
           ELSE \/ /\ Archive(p, buf[p], ptr + 1)
                   /\ Goto(p, "chunk_head", local[p], Drop(buf[p], ptr + 1))
                \/ ArchiveFault(p, buf[p], ptr + 1)
    /\ UNCHANGED <<config, pos>>

(***************************************************************************)
(* Lines 318-358: the head of the next chunk.                              *)
(***************************************************************************)
\* an unknown chunk type is handled as a block chunk
DispatchDefaultBlocks(chunk_type) ==
    IF chunk_type = 1 THEN "base_header" ELSE "blocks_header"

\* the switch on chunk_type: where a chunk of this type is processed
Dispatch(chunk_type) ==
    IF chunk_type = 1 THEN "base_header"
    ELSE IF chunk_type = 2 THEN "blocks_header"
    ELSE "unrecognised"

\* [error, chunk_type, tablename, ptr]
ParseChunkHead(b) ==
    LET name == F_unpack_string(Drop(b, 1))
        bad(m) == [error |-> m, chunk_type |-> 0, tablename |-> <<>>, ptr |-> 0]
    IN  IF Len(b) = 0 THEN bad("Unexpected end of changeset (2)")
        ELSE IF b[1] = 0
             THEN [error |-> "", chunk_type |-> 0, tablename |-> <<>>, ptr |-> 1]
        ELSE IF ~name.ok THEN bad("Unexpected end of changeset (3)")
        ELSE IF name.val = <<>> THEN bad("Missing tablename in changeset")
        ELSE IF ~OnlyLowercase(name.val)
             THEN bad("Invalid character in tablename in changeset")
        ELSE IF 1 + name.len = Len(b) THEN bad("Unexpected end of changeset (4)")
        ELSE [error |-> "", chunk_type |-> b[1], tablename |-> name.val,
              ptr |-> 1 + name.len]

ChunkHead(p) ==
    /\ pc[p] = "chunk_head"
    /\ \/ /\ MayTimeOut(p, buf[p], REASONABLE_CHANGESET_SIZE)
          /\ Timeout(p)
       \/ \E k \in Deliveries(p, buf[p], REASONABLE_CHANGESET_SIZE) :
             LET b == Received(p, buf[p], k)
                 h == ParseChunkHead(b)
                 next == Dispatch(h.chunk_type)
             IN  /\ pos' = [pos EXCEPT ![p] = @ + k]
                 /\ IF h.error # ""
                    THEN /\ Throw(p, "NetworkError", h.error)
                         /\ UNCHANGED <<fs, archived, ops, faulted>>
                    ELSE IF h.chunk_type = 0
                    THEN /\ Goto(p, "footer", [local[p] EXCEPT !.ptr = h.ptr], b)
                         /\ UNCHANGED <<fs, archived, ops, faulted>>
                    ELSE \/ /\ ArchiveAnd(p, b, h.ptr,
                                          <<Op("dispatch", h.tablename, h.chunk_type, <<>>)>>)
                            /\ IF next = "unrecognised"
                               THEN Throw(p, "NetworkError",
                                          "Unrecognised item type in changeset")
                               ELSE Goto(p, next,
                                         [local[p] EXCEPT !.tablename = h.tablename],
                                         Drop(b, h.ptr))
                         \/ ArchiveFault(p, b, h.ptr)
    /\ UNCHANGED config

(***************************************************************************)
(* process_changeset_chunk_base, lines 88-161.                             *)
(***************************************************************************)
LetterOK(letter) == letter = LetterA \/ letter = LetterB

\* lines 95-113: the letter and the size
BaseHeader(p) ==
    /\ pc[p] = "base_header"
    /\ LET b == buf[p]
           size == F_unpack_uint(Drop(b, 1))
       IN  IF ~LetterOK(b[1])
           THEN /\ Throw(p, "NetworkError", "Invalid base file letter in changeset")
                /\ UNCHANGED <<fs, archived, ops, faulted>>
           ELSE IF Len(b) = 1
           THEN /\ Throw(p, "NetworkError", "Unexpected end of changeset (5)")
                /\ UNCHANGED <<fs, archived, ops, faulted>>
           ELSE IF ~size.ok
           THEN /\ Throw(p, "NetworkError", "Invalid base file size in changeset")
                /\ UNCHANGED <<fs, archived, ops, faulted>>
           ELSE \/ /\ Archive(p, b, 1 + size.len)
                   /\ Goto(p, "base_read",
                           [local[p] EXCEPT !.letter = b[1], !.base_size = size.val],
                           Drop(b, 1 + size.len))
                \/ ArchiveFault(p, b, 1 + size.len)
    /\ UNCHANGED <<config, pos>>

\* lines 114-117: the content of the base file
BaseRead(p) ==
    /\ pc[p] = "base_read"
    /\ \/ MayTimeOut(p, buf[p], local[p].base_size) /\ Timeout(p)
       \/ \E k \in Deliveries(p, buf[p], local[p].base_size) :
             LET b == Received(p, buf[p], k)
             IN  /\ pos' = [pos EXCEPT ![p] = @ + k]
                 /\ IF Len(b) < local[p].base_size
                    THEN Throw(p, "NetworkError", "Unexpected end of changeset (6)")
                    ELSE Goto(p, "base_open", local[p], b)
                 /\ UNCHANGED <<fs, archived, ops, faulted>>
    /\ UNCHANGED config

\* lines 120-131: open the temporary file, created or truncated
BaseOpen(p) ==
    /\ pc[p] = "base_open"
    /\ LET tmp_path == TmpPath(local[p].tablename)
       IN  \/ /\ fs' = [fs EXCEPT ![db_dir[p]] = PutFile(@, tmp_path, <<>>)]
              /\ ops' = Log(p, Op("create", tmp_path, 0, <<>>))
              /\ Goto(p, "base_write", [local[p] EXCEPT !.fd = 4], buf[p])
              /\ UNCHANGED faulted
           \/ /\ Throw(p, "DatabaseError", "Failed to open tmp")
              /\ faulted' = [faulted EXCEPT ![p] = TRUE]
              /\ UNCHANGED <<fs, ops>>
    /\ UNCHANGED <<config, pos, archived>>

\* io_write(fd, data, n) may throw after writing fewer than n bytes
PartialWrites(n) == 0..(n - 1)

\* line 135: write base_size bytes of buf to the temporary file
BaseWrite(p) ==
    /\ pc[p] = "base_write"
    /\ LET tmp_path == TmpPath(local[p].tablename)
           data == Take(buf[p], local[p].base_size)
       IN  \/ /\ fs' = [fs EXCEPT ![db_dir[p]] = PutFile(@, tmp_path, data)]
              /\ ops' = Log(p, Op("write", tmp_path, 0, data))
              /\ Goto(p, "base_sync", local[p], buf[p])
              /\ UNCHANGED faulted
           \/ \E n \in PartialWrites(local[p].base_size) :
                 /\ fs' = [fs EXCEPT ![db_dir[p]] = PutFile(@, tmp_path, Take(data, n))]
                 /\ ops' = Log(p, Op("write", tmp_path, 0, Take(data, n)))
                 /\ Throw(p, "DatabaseError", "Error writing to file")
                 /\ faulted' = [faulted EXCEPT ![p] = TRUE]
    /\ UNCHANGED <<config, pos, archived>>

\* what io_sync(fd) can return: true, or false when the flush failed
SyncOutcomes == BOOLEAN

\* lines 136-137: io_sync, whose result is not looked at, then close
BaseSync(p) ==
    /\ pc[p] = "base_sync"
    /\ \E synced \in SyncOutcomes :
          /\ ops' = Log(p, Op("sync", TmpPath(local[p].tablename),
                              IF synced THEN 0 ELSE -1, <<>>))
          /\ faulted' = [faulted EXCEPT ![p] = @ \/ ~synced]
    /\ Goto(p, "base_archive", [local[p] EXCEPT !.fd = -1], buf[p])
    /\ UNCHANGED <<config, fs, pos, archived>>

\* the content of the base file is dropped from buf without being archived
BaseArchiveSkipped(p) ==
    /\ pc[p] = "base_archive"
    /\ Goto(p, "base_rename", local[p], Drop(buf[p], local[p].base_size))
    /\ UNCHANGED <<config, pos, fs, archived, ops, faulted>>

\* the content is erased from buf only when it is written to a changeset file
BaseArchiveKeptOnly(p) ==
    /\ pc[p] = "base_archive"
    /\ \/ /\ Archive(p, buf[p], local[p].base_size)
          /\ Goto(p, "base_rename", local[p],
                  IF local[p].changes_fd = -1 THEN buf[p]
                  ELSE Drop(buf[p], local[p].base_size))
       \/ ArchiveFault(p, buf[p], local[p].base_size)
    /\ UNCHANGED <<config, pos>>

\* line 140: archive the content before the file is moved into place
BaseArchive(p) ==
    /\ pc[p] = "base_archive"
    /\ \/ /\ Archive(p, buf[p], local[p].base_size)
          /\ Goto(p, "base_rename", local[p], Drop(buf[p], local[p].base_size))
       \/ ArchiveFault(p, buf[p], local[p].base_size)
    /\ UNCHANGED <<config, pos>>

ENOENT == 2
EACCES == 13

\* any failed rename gives up
UpdateAlwaysFails(unlink_ret, unlink_errno) == TRUE

\* a removal that succeeds is taken for a rename that succeeded
UpdateFailsUnlessRemoved(unlink_ret, unlink_errno) ==
    unlink_ret # 0 /\ unlink_errno # ENOENT

\* line 153: after a failed rename, unlink(tmp_path) returned unlink_ret and
\* set errno; whether the update is given up
UpdateFails(unlink_ret, unlink_errno) == unlink_ret = 0 \/ unlink_errno # ENOENT

\* rename adds the bytes of from to what to already holds
RenamedAppending(dir, from, to) ==
    RemoveFile(PutFile(dir, to, (IF Exists(dir, to) THEN dir[to] ELSE <<>>) \o dir[from]),
               from)

\* the directory after rename(from, to)
Renamed(dir, from, to) == RemoveFile(PutFile(dir, to, dir[from]), from)

\* what unlink(path) can do: [ret, errno, dir]
UnlinkOutcomes(dir, path) ==
    IF Exists(dir, path)
    THEN {[ret |-> 0, errno |-> 0, dir |-> RemoveFile(dir, path)],
          [ret |-> -1, errno |-> EACCES, dir |-> dir]}
    ELSE {[ret |-> -1, errno |-> ENOENT, dir |-> dir]}

\* lines 142-160: move the temporary file into place.  rename() returns 0, or
\* fails and leaves the files alone, or (NFS) is reported as failed although
\* the server did it.
BaseRename(p) ==
    /\ pc[p] = "base_rename"
    /\ LET tmp_path == TmpPath(local[p].tablename)
           base_path == BasePath(local[p].tablename, local[p].letter)
           dir == fs[db_dir[p]]
       IN  \/ /\ fs' = [fs EXCEPT ![db_dir[p]] = Renamed(dir, tmp_path, base_path)]
              /\ ops' = Log(p, Op("rename", base_path, 0, dir[tmp_path]))
              /\ Goto(p, "chunk_head", local[p], buf[p])
              /\ UNCHANGED faulted
           \/ \E done \in BOOLEAN :
                 LET after == IF done THEN Renamed(dir, tmp_path, base_path) ELSE dir
                 IN  \E u \in UnlinkOutcomes(after, tmp_path) :
                        /\ fs' = [fs EXCEPT ![db_dir[p]] = u.dir]
                        /\ ops' = Log(p, Op("rename_failed", base_path, u.ret,
                                            <<u.errno>>))
                        /\ faulted' = [faulted EXCEPT ![p] = TRUE]
                        /\ IF UpdateFails(u.ret, u.errno)
                           THEN Throw(p, "DatabaseError", "Couldn't update base file")
                           ELSE Goto(p, "chunk_head", local[p], buf[p])
    /\ UNCHANGED <<config, pos, archived>>

(***************************************************************************)
(* process_changeset_chunk_blocks, lines 163-234.                          *)
(***************************************************************************)
\* lines 170-176: the block size
BlocksHeader(p) ==
    /\ pc[p] = "blocks_header"
    /\ LET size == F_unpack_uint(buf[p])
       IN  IF ~size.ok
           THEN /\ Throw(p, "NetworkError", "Invalid blocksize in changeset")
                /\ UNCHANGED <<fs, archived, ops, faulted>>
           ELSE \/ /\ Archive(p, buf[p], size.len)
                   /\ Goto(p, "blocks_open",
                           [local[p] EXCEPT !.changeset_blocksize = size.val],
                           Drop(buf[p], size.len))
                \/ ArchiveFault(p, buf[p], size.len)
    /\ UNCHANGED <<config, pos>>

\* lines 178-200: open the data file for writing; create it when it is absent
BlocksOpen(p) ==
    /\ pc[p] = "blocks_open"
    /\ LET db_path == DbPath(local[p].tablename)
           dir == fs[db_dir[p]]
       IN  \/ /\ Exists(dir, db_path)
              /\ Goto(p, "block_number", [local[p] EXCEPT !.fd = 4], buf[p])
              /\ ops' = Log(p, Op("open", db_path, 0, dir[db_path]))
              /\ UNCHANGED <<fs, faulted>>
           \/ /\ Exists(dir, db_path)
              /\ Throw(p, "DatabaseError", "Failed to open DB")
              /\ faulted' = [faulted EXCEPT ![p] = TRUE]
              /\ UNCHANGED <<fs, ops>>
           \/ /\ ~Exists(dir, db_path)
              /\ fs' = [fs EXCEPT ![db_dir[p]] = PutFile(@, db_path, <<>>)]
              /\ ops' = Log(p, Op("create", db_path, 0, <<>>))
              /\ Goto(p, "block_number", [local[p] EXCEPT !.fd = 4], buf[p])
              /\ UNCHANGED faulted
           \/ /\ ~Exists(dir, db_path)
              /\ Throw(p, "DatabaseError", "Failed to create and open DB")
              /\ faulted' = [faulted EXCEPT ![p] = TRUE]
              /\ UNCHANGED <<fs, ops>>
    /\ UNCHANGED <<config, pos, archived>>

\* the number read is used as the block index
BlockIndexNotDecremented(n) == n

\* line 215: the block a non-zero number read from the changeset stands for
BlockIndex(n) == n - 1

\* lines 205-215: the next block number; 0 ends the chunk
BlockNumber(p) ==
    /\ pc[p] = "block_number"
    /\ \/ /\ MayTimeOut(p, buf[p], REASONABLE_CHANGESET_SIZE)
          /\ Timeout(p)
       \/ \E k \in Deliveries(p, buf[p], REASONABLE_CHANGESET_SIZE) :
             LET b == Received(p, buf[p], k)
                 n == F_unpack_uint(b)
             IN  /\ pos' = [pos EXCEPT ![p] = @ + k]
                 /\ IF ~n.ok
                    THEN /\ Throw(p, "NetworkError", "Invalid block number in changeset")
                         /\ UNCHANGED <<fs, archived, ops, faulted>>
                    ELSE \/ /\ Archive(p, b, n.len)
                            /\ IF n.val = 0
                               THEN Goto(p, "blocks_sync", local[p], Drop(b, n.len))
                               ELSE Goto(p, "block_read",
                                         [local[p] EXCEPT !.block_number = BlockIndex(n.val)],
                                         Drop(b, n.len))
                         \/ ArchiveFault(p, b, n.len)
    /\ UNCHANGED config

\* lines 217-219: the block's bytes
BlockRead(p) ==
    /\ pc[p] = "block_read"
    /\ \/ /\ MayTimeOut(p, buf[p], local[p].changeset_blocksize)
          /\ Timeout(p)
       \/ \E k \in Deliveries(p, buf[p], local[p].changeset_blocksize) :
             LET b == Received(p, buf[p], k)
             IN  /\ pos' = [pos EXCEPT ![p] = @ + k]
                 /\ IF Len(b) < local[p].changeset_blocksize
                    THEN Throw(p, "NetworkError", "Incomplete block in changeset")
                    ELSE Goto(p, "block_write", local[p], b)
                 /\ UNCHANGED <<fs, archived, ops, faulted>>
    /\ UNCHANGED config

\* line 223: the offset lseek moves to
BlockOffset(changeset_blocksize, block_number) == changeset_blocksize * block_number

\* the seek is lost: data is written at the end of the file
WriteAtEnd(content, off, data) == content \o data

\* a file after data is written at offset off; a gap reads as zeros
WriteAt(content, off, data) ==
    LET n == IF Len(content) > off + Len(data) THEN Len(content) ELSE off + Len(data)
    IN  [i \in 1..n |->
            IF i > off /\ i <= off + Len(data) THEN data[i - off]
            ELSE IF i <= Len(content) THEN content[i]
            ELSE 0]

\* lines 223-228: seek to the block and write it
BlockWrite(p) ==
    /\ pc[p] = "block_write"
    /\ LET db_path == DbPath(local[p].tablename)
           old == fs[db_dir[p]][db_path]
           off == BlockOffset(local[p].changeset_blocksize, local[p].block_number)
           data == Take(buf[p], local[p].changeset_blocksize)
       IN  \/ /\ fs' = [fs EXCEPT ![db_dir[p]] = PutFile(@, db_path, WriteAt(old, off, data))]
              /\ ops' = Log(p, Op("write", db_path, off, data))
              /\ Goto(p, "block_archive", local[p], buf[p])
              /\ UNCHANGED faulted
           \/ /\ Throw(p, "DatabaseError", "Failed to seek to block")
              /\ faulted' = [faulted EXCEPT ![p] = TRUE]
              /\ UNCHANGED <<fs, ops>>
           \/ \E n \in PartialWrites(local[p].changeset_blocksize) :
                 /\ fs' = [fs EXCEPT ![db_dir[p]] =
                              PutFile(@, db_path,
                                      IF n = 0 THEN old ELSE WriteAt(old, off, Take(data, n)))]
                 /\ ops' = Log(p, Op("write", db_path, off, Take(data, n)))
                 /\ Throw(p, "DatabaseError", "Error writing to file")
                 /\ faulted' = [faulted EXCEPT ![p] = TRUE]
    /\ UNCHANGED <<config, pos, archived>>

\* the block is dropped from buf without being archived
BlockArchiveSkipped(p) ==
    /\ pc[p] = "block_archive"
    /\ Goto(p, "block_number", local[p], Drop(buf[p], local[p].changeset_blocksize))
    /\ UNCHANGED <<config, pos, fs, archived, ops, faulted>>

\* line 230: archive the block after it is written
BlockArchive(p) ==
    /\ pc[p] = "block_archive"
    /\ \/ /\ Archive(p, buf[p], local[p].changeset_blocksize)
          /\ Goto(p, "block_number", local[p],
                  Drop(buf[p], local[p].changeset_blocksize))
       \/ ArchiveFault(p, buf[p], local[p].changeset_blocksize)
    /\ UNCHANGED <<config, pos>>

\* the chunk ends without io_sync
BlocksSyncSkipped(p) ==
    /\ pc[p] = "blocks_sync"
    /\ Goto(p, "chunk_head", [local[p] EXCEPT !.fd = -1], buf[p])
    /\ UNCHANGED <<config, fs, pos, archived, ops, faulted>>

\* lines 232-233: one io_sync after the last block, result not looked at
BlocksSync(p) ==
    /\ pc[p] = "blocks_sync"
    /\ \E synced \in SyncOutcomes :
          /\ ops' = Log(p, Op("sync", DbPath(local[p].tablename),
                              IF synced THEN 0 ELSE -1, <<>>))
          /\ faulted' = [faulted EXCEPT ![p] = @ \/ ~synced]
    /\ Goto(p, "chunk_head", [local[p] EXCEPT !.fd = -1], buf[p])
    /\ UNCHANGED <<config, fs, pos, archived>>

(***************************************************************************)
(* Lines 359-369: the required revision, and the result.                   *)
(***************************************************************************)
\* the required revision is not compared
RequiredUnchecked(reqrev, endrev) == TRUE
RequiredOK(reqrev, endrev) == ~(reqrev < endrev)

\* what follows the required revision is not looked at
ParseFooterJunkIgnored(b, ptr, endrev) ==
    LET r == F_unpack_uint(Drop(b, ptr))
    IN  IF ~r.ok
        THEN [error |-> "Couldn't read a valid required revision from changeset",
              reqrev |-> 0]
        ELSE IF ~RequiredOK(r.val, endrev)
        THEN [error |-> "Required revision in changeset is earlier than end revision",
              reqrev |-> 0]
        ELSE [error |-> "", reqrev |-> r.val]

\* [error, reqrev]: b is buf, ptr the bytes of it already read
ParseFooter(b, ptr, endrev) ==
    LET r == F_unpack_uint(Drop(b, ptr))
    IN  IF ~r.ok
        THEN [error |-> "Couldn't read a valid required revision from changeset",
              reqrev |-> 0]
        ELSE IF ~RequiredOK(r.val, endrev)
        THEN [error |-> "Required revision in changeset is earlier than end revision",
              reqrev |-> 0]
        ELSE IF ptr + r.len # Len(b)
        THEN [error |-> "Junk found at end of changeset", reqrev |-> 0]
        ELSE [error |-> "", reqrev |-> r.val]

Footer(p) ==
    /\ pc[p] = "footer"
    /\ LET f == ParseFooter(buf[p], local[p].ptr, local[p].endrev)
       IN  IF f.error # ""
           THEN /\ Throw(p, "NetworkError", f.error)
                /\ UNCHANGED <<fs, archived, ops, faulted>>
           ELSE \/ /\ Archive(p, buf[p], Len(buf[p]))
                   /\ Return(p, F_pack_uint(f.reqrev))
                \/ ArchiveFault(p, buf[p], Len(buf[p]))
    /\ UNCHANGED <<config, pos>>

(***************************************************************************)
(* The specification.                                                      *)
(***************************************************************************)
Step(p) ==
    \/ Lock(p)
    \/ GetMessageChunked(p)
    \/ ReadHeader(p)
    \/ CreateChangesetFile(p)
    \/ CheckRevision(p)
    \/ CheckType(p)
    \/ ChunkHead(p)
    \/ BaseHeader(p)
    \/ BaseRead(p)
    \/ BaseOpen(p)
    \/ BaseWrite(p)
    \/ BaseSync(p)
    \/ BaseArchive(p)
    \/ BaseRename(p)
    \/ BlocksHeader(p)
    \/ BlocksOpen(p)
    \/ BlockNumber(p)
    \/ BlockRead(p)
    \/ BlockWrite(p)
    \/ BlockArchive(p)
    \/ BlocksSync(p)
    \/ Footer(p)

Next == \E p \in Procs : Step(p)

Spec == Init /\ [][Next]_vars

\* a caller that has started keeps running: the thread is scheduled, and a
\* read ends with bytes, with the end of the message or with the timeout
FairSpec == Spec /\ \A p \in Procs : WF_vars(Step(p))

(***************************************************************************)
(* Vocabulary of the properties.                                           *)
(***************************************************************************)
Ended(p) == pc[p] \in {"Done", "Failed"}

\* past lock.lock() and not yet out of the call
Running(p) == pc[p] \notin {"idle", "start", "Done", "Failed"}

HoldsLock(p) == p \in lockHolders[db_dir[p]]

\* NetworkTimeoutError is a NetworkError
IsNetworkError(e) == e.class \in {"NetworkError", "NetworkTimeoutError"}

EndsWith(s, suffix) ==
    Len(s) >= Len(suffix) /\ SubSeq(s, Len(s) - Len(suffix) + 1, Len(s)) = suffix

IsChangesPath(path) == startswith(path, <<99, 104, 97, 110, 103, 101, 115>>)

\* the base, temporary and data files of a directory
TableFiles(dir) == [q \in {x \in DOMAIN dir : ~IsChangesPath(x)} |-> dir[q]]

Last(s) == s[Len(s)]

\* C1: every call that has taken the lock comes to an end, Done or Failed,
\* and has released the lock by then; no ended call holds the lock.
C1_LockReleasedOnEveryExit ==
    /\ [](\A p \in Procs : Ended(p) => ~HoldsLock(p))
    /\ \A p \in Procs : HoldsLock(p) ~> (Ended(p) /\ ~HoldsLock(p))

\* a call that ended on a storage error in the middle of a chunk, while the
\* other caller succeeded, and nobody holds the lock
C1_Witness ==
    /\ pc[1] = "Failed" /\ err[1].class = "DatabaseError" /\ ops[1] # <<>>
    /\ pc[2] = "Done"
    /\ lockHolders[1] = {}

\* C2: a caller past lock.lock() is the only holder of the lock; a caller
\* whose lock() failed has read nothing and touched no file; every step that
\* reads from the transport or changes a file is made by the one holder.
C2_MutationsUnderLock ==
    /\ [](\A p \in Procs :
            /\ Running(p) => lockHolders[db_dir[p]] = {p}
            /\ err[p].class = "DatabaseLockError" =>
                  pos[p] = 0 /\ ops[p] = <<>> /\ archived[p] = <<>>)
    /\ [][/\ fs' # fs => \E p \in Procs :
                  ops'[p] # ops[p] /\ lockHolders[db_dir[p]] = {p}
          /\ \A p \in Procs :
                (pos'[p] # pos[p] \/ ops'[p] # ops[p] \/ archived'[p] # archived[p])
                   => lockHolders[db_dir[p]] = {p}]_vars

\* the second caller was refused the lock while the first was changing files,
\* and the first went on to change more
C2_Witness ==
    /\ err[2] = [class |-> "DatabaseLockError", msg |-> "INUSE"]
    /\ Running(1)
    /\ Len(ops[1]) > 3
    /\ fs[1] # InitialFiles

BadMagic == ~startswith(stream, CHANGES_MAGIC_STRING)

\* C3: for a message that does not start with the magic string the call never
\* gets past the header, ends Failed with a NetworkError (the magic-string
\* one unless the read timed out), and leaves the directory as it was: no
\* table file and no changeset file is written, whatever max_changesets is.
C3_BadMagicRejected ==
    \A p \in Procs :
        BadMagic =>
            /\ pc[p] \in {"idle", "start", "get_type", "read_header", "Failed"}
            /\ fs[db_dir[p]] = InitialFiles
            /\ ops[p] = <<>> /\ archived[p] = <<>>
            /\ (pc[p] = "Failed" /\ err[p].class # "DatabaseLockError") =>
                  \/ err[p].class = "NetworkTimeoutError"
                  \/ err[p] = [class |-> "NetworkError",
                               msg |-> "Invalid ChangeSet magic string"]

C3_Witness ==
    /\ BadMagic /\ Len(stream) > 6
    /\ max_changesets[1] > 0
    /\ pc[1] = "Failed"
    /\ err[1].msg = "Invalid ChangeSet magic string"
    /\ pos[1] > 0

RevisionMismatch(p) == cs.startrev # record_revision[db_dir[p]]

ReadRevision(p) == \E i \in 1..Len(ops[p]) : ops[p][i].op = "read_revision"

\* C4: with valid = true and a replica at another revision than the header's
\* start revision, the call never reaches the chunk loop and no table file
\* changes; with valid = false the replica's revision is not read and the
\* wrong-revision error is never raised.
C4_RevisionGuard ==
    \A p \in Procs :
        /\ (valid[p] /\ RevisionMismatch(p)) =>
              /\ pc[p] \in {"idle", "start", "get_type", "read_header",
                            "create_changes", "check_revision", "Failed"}
              /\ TableFiles(fs[db_dir[p]]) = InitialFiles
        /\ ~valid[p] =>
              /\ ~ReadRevision(p)
              /\ err[p].msg # "Changeset supplied is for wrong revision number"

C4_Witness ==
    /\ valid[1] /\ RevisionMismatch(1)
    /\ cs.chunks # <<>>
    /\ err[1] = [class |-> "NetworkError",
                 msg |-> "Changeset supplied is for wrong revision number"]

\* C5: a call returns only for a changeset with end revision > start revision
\* and required revision >= end revision; a changeset that breaks either
\* ends Failed, with a NetworkError unless a file operation failed first.
C5_RevisionOrder ==
    \A p \in Procs :
        /\ pc[p] = "Done" => (cs.endrev > cs.startrev /\ cs.reqrev >= cs.endrev)
        /\ (Ended(p) /\ (cs.endrev <= cs.startrev \/ cs.reqrev < cs.endrev)) =>
              /\ pc[p] = "Failed"
              /\ (~faulted[p] /\ err[p].class # "DatabaseLockError") =>
                    IsNetworkError(err[p])
              /\ (cs.endrev <= cs.startrev /\ err[p].class = "NetworkError") =>
                    err[p].msg = "End revision in changeset is not later than start revision"

C5_Witness ==
    /\ cs.reqrev < cs.endrev
    /\ pc[1] = "Failed"
    /\ err[1].msg = "Required revision in changeset is earlier than end revision"
    /\ fs[1] # InitialFiles

NewOp(p) == Len(ops'[p]) = Len(ops[p]) + 1

\* the step of p is a rename() that failed, followed by unlink(tmp_path)
RenameFailedStep(p) == NewOp(p) /\ Last(ops'[p]).op = "rename_failed"

RenameFailedAt(p, i) == ops[p][i].op = "rename_failed"

\* C6: when rename() fails and unlink() then fails with ENOENT, the step
\* raises no error and the driver is back at the head of the chunk loop.
C6_RenameRaceRecovered ==
    [][\A p \in Procs :
          (/\ RenameFailedStep(p)
           /\ Last(ops'[p]).at = -1
           /\ Last(ops'[p]).data = <<ENOENT>>)
             => (pc'[p] = "chunk_head" /\ err'[p] = NoError)]_vars

\* such a chunk, taken as applied, in a call that then returned
C6_Witness ==
    /\ pc[1] = "Done"
    /\ \E i \in 1..Len(ops[1]) :
          /\ RenameFailedAt(1, i)
          /\ ops[1][i].at = -1 /\ ops[1][i].data = <<ENOENT>>

\* C7 as stated: when rename() fails and unlink() succeeds, no error is raised
\* for the chunk.
C7_RemovalSuccessTreatedAsRenamed ==
    [][\A p \in Procs :
          (RenameFailedStep(p) /\ Last(ops'[p]).at = 0)
             => (pc'[p] = "chunk_head" /\ err'[p] = NoError)]_vars

\* C7, amended: when rename() fails, the chunk is taken as applied only if
\* unlink() fails with ENOENT; when unlink() succeeds, or fails with another
\* errno, the call ends with the DatabaseError "Couldn't update base file".
C7_RenameFailureThrowsUnlessGone ==
    [][\A p \in Procs :
          RenameFailedStep(p) =>
             IF Last(ops'[p]).at = -1 /\ Last(ops'[p]).data = <<ENOENT>>
             THEN pc'[p] = "chunk_head" /\ err'[p] = NoError
             ELSE /\ pc'[p] = "Failed"
                  /\ err'[p] = [class |-> "DatabaseError",
                                msg |-> "Couldn't update base file"]]_vars

\* rename() failed, unlink() removed the temporary file, the call failed and
\* the base file is the old one
C7_Witness ==
    /\ pc[1] = "Failed"
    /\ err[1].msg = "Couldn't update base file"
    /\ RenameFailedAt(1, Len(ops[1])) /\ Last(ops[1]).at = 0
    /\ ~Exists(fs[1], TmpPath(TableA))
    /\ fs[1][BasePath(TableA, LetterA)] = <<9, 9, 9>>

(***************************************************************************)
(* What a block chunk is to leave in the data file: block i holds the      *)
(* bytes of the last <<i + 1, bytes>> of the chunk, a block that does not   *)
(* occur keeps the bytes it had, a gap below the last block reads as zeros.*)
(***************************************************************************)
Occurrences(blocks, i) == {k \in 1..Len(blocks) : blocks[k][1] - 1 = i}

LastOccurrence(blocks, i) ==
    CHOOSE k \in Occurrences(blocks, i) : \A m \in Occurrences(blocks, i) : m <= k

ExpectedLength(before, blocksize, blocks) ==
    LET ends == {blocksize * blocks[k][1] : k \in 1..Len(blocks)} \cup {Len(before)}
    IN  CHOOSE n \in ends : \A m \in ends : m <= n

ExpectedBlocks(before, blocksize, blocks) ==
    [j \in 1..ExpectedLength(before, blocksize, blocks) |->
        LET i == (j - 1) \div blocksize
        IN  IF Occurrences(blocks, i) # {}
            THEN blocks[LastOccurrence(blocks, i)][2][((j - 1) % blocksize) + 1]
            ELSE IF j <= Len(before) THEN before[j]
            ELSE 0]

\* the chunks the call has dispatched so far
Dispatched(p) == Cardinality({i \in 1..Len(ops[p]) : ops[p][i].op = "dispatch"})

\* the chunk being processed
CurrentChunk(p) == cs.chunks[Dispatched(p)]

\* the data file as the current block chunk found it when it opened it
OpenedAt(p) ==
    CHOOSE i \in 1..Len(ops[p]) :
        /\ ops[p][i].op \in {"open", "create"}
        /\ \A k \in (i + 1)..Len(ops[p]) : ops[p][k].op \notin {"open", "create"}

\* C8: when the terminating 0 of a block chunk has been read, the data file
\* holds, at each block index that occurs in the chunk, the bytes of the last
\* occurrence of that index (tag t is index t - 1), and elsewhere what it
\* held when the chunk began.
C8_LastBlockWins ==
    \A p \in Procs :
        pc[p] = "blocks_sync" =>
            LET c == CurrentChunk(p)
            IN  fs[db_dir[p]][DbPath(c.name)] =
                   ExpectedBlocks(ops[p][OpenedAt(p)].data, c.blocksize, c.blocks)

\* a chunk with the blocks 1, 0, 1 in that order, on a file that had content
C8_Witness ==
    /\ pc[1] = "blocks_sync"
    /\ CurrentChunk(1) = BlocksA
    /\ ops[1][OpenedAt(1)].data = <<1, 2, 3, 4, 5>>
    /\ fs[1][DbPath(TableA)] = <<24, 25, 26, 27, 5>>

(***************************************************************************)
(* What the chunks of a changeset are to leave in the directory, chunk by  *)
(* chunk in the order of the stream.                                       *)
(***************************************************************************)
ApplyChunk(dir, c) ==
    IF c.type = 1
    THEN PutFile(RemoveFile(dir, TmpPath(c.name)), BasePath(c.name, c.letter), c.content)
    ELSE PutFile(dir, DbPath(c.name),
                 ExpectedBlocks(IF Exists(dir, DbPath(c.name))
                                THEN dir[DbPath(c.name)] ELSE <<>>,
                                c.blocksize, c.blocks))

RECURSIVE ApplyChunks(_, _)
ApplyChunks(dir, chunks) ==
    IF chunks = <<>> THEN dir
    ELSE ApplyChunks(ApplyChunk(dir, Head(chunks)), Tail(chunks))

KnownType(type) == type \in {1, 2}

\* the changeset has a chunk whose tag is none of 0, 1, 2
HasUnknown == \E i \in 1..Len(cs.chunks) : ~KnownType(cs.chunks[i].type)

\* the position of the first such chunk
FirstUnknown ==
    CHOOSE i \in 1..Len(cs.chunks) :
        /\ ~KnownType(cs.chunks[i].type)
        /\ \A k \in 1..(i - 1) : KnownType(cs.chunks[k].type)

\* the step of p reads the head of a chunk with an unknown tag
UnknownTagStep(p) ==
    /\ NewOp(p) \/ Len(ops'[p]) = Len(ops[p]) + 2
    /\ Last(ops'[p]).op = "dispatch"
    /\ ~KnownType(Last(ops'[p]).at)

NoRenameFailed(p) == \A i \in 1..Len(ops[p]) : ~RenameFailedAt(p, i)

\* the call has failed on the unknown tag, every chunk before it being applied
\* in the order of the stream; nothing was done after the tag was dispatched
FailedAtUnknown(p) ==
    /\ pc[p] = "Failed"
    /\ err[p] = [class |-> "NetworkError",
                 msg |-> "Unrecognised item type in changeset"]
    /\ Dispatched(p) = FirstUnknown
    /\ Last(ops[p]).op = "dispatch"
    /\ NoRenameFailed(p) =>
          TableFiles(fs[db_dir[p]]) =
             ApplyChunks(InitialFiles, SubSeq(cs.chunks, 1, FirstUnknown - 1))

\* a changeset with an unknown tag never returns, never gets past that chunk,
\* and a call that comes to the tag ends there
UnknownTagRejected ==
    \A p \in Procs :
        HasUnknown =>
            /\ pc[p] # "Done"
            /\ Dispatched(p) <= FirstUnknown
            /\ Dispatched(p) = FirstUnknown => FailedAtUnknown(p)

\* C9 as stated: an unknown tag ends the call with a NetworkError, the chunks
\* before it applied in order, and the step that reads the tag changes no
\* file of the directory.
C9_NoFileChangeAfterUnknownTag ==
    /\ []UnknownTagRejected
    /\ [][\A p \in Procs :
             UnknownTagStep(p) => fs'[db_dir[p]] = fs[db_dir[p]]]_vars

\* C9, amended: an unknown tag ends the call with a NetworkError, the chunks
\* before it applied in order; the step that reads the tag changes no base,
\* temporary or data file, and with a changeset file open it appends to that
\* file the tag and the table name of the chunk, which it has read.
C9_UnknownTagRejected ==
    /\ []UnknownTagRejected
    /\ [][\A p \in Procs :
             UnknownTagStep(p) =>
                /\ TableFiles(fs'[db_dir[p]]) = TableFiles(fs[db_dir[p]])
                /\ pc'[p] = "Failed"
                /\ IF local[p].changes_fd = -1
                   THEN fs'[db_dir[p]] = fs[db_dir[p]]
                   ELSE /\ archived'[p] =
                              Take(stream,
                                   Len(EncodeHeader(cs) \o
                                       EncodeChunks(SubSeq(cs.chunks, 1, FirstUnknown))))
                        /\ fs'[db_dir[p]][local[p].changes_name] = archived'[p]]_vars

\* the unknown tag came after a block chunk that was applied, in a call that
\* keeps changesets
C9_Witness ==
    /\ cs.chunks = <<BlocksA, OtherChunk(3, TableA)>>
    /\ FailedAtUnknown(1)
    /\ max_changesets[1] > 0
    /\ fs[1][DbPath(TableA)] = <<24, 25, 26, 27, 5>>
    /\ EndsWith(archived[1], <<3, 1, 97>>)

\* the step in which the call of p returns
Returns(p) == pc[p] # "Done" /\ pc'[p] = "Done"

\* C10: when a call that keeps changesets returns, the bytes it appended to
\* the changeset file, in order, are the whole message, from the first byte
\* of the magic string to the last byte of the required revision, and they
\* are the content of the file when it returns.
C10_ArchiveIsTheStream ==
    /\ [](\A p \in Procs :
            (pc[p] = "Done" /\ max_changesets[p] > 0) =>
                /\ pos[p] = Len(stream)
                /\ stream = EncodeAll(cs)
                /\ archived[p] = stream)
    /\ [][\A p \in Procs :
             (Returns(p) /\ max_changesets[p] > 0) =>
                fs'[db_dir[p]][ChangesPath(cs.startrev)] = stream]_vars

\* a base chunk and a block chunk with three blocks, archived
C10_Witness ==
    /\ pc[1] = "Done"
    /\ max_changesets[1] > 0
    /\ cs = Good2
    /\ archived[1] = Encode(Good2)

\* the call of p wrote to, or created, a changeset file
TouchedChanges(p) ==
    \E i \in 1..Len(ops[p]) : ops[p][i].op = "archive" \/ IsChangesPath(ops[p][i].path)

\* C11: with max_changesets <= 0 no changeset file is created and nothing is
\* written through changes_fd, at any point of a call, whether it returns or
\* fails.
C11_NoArchiveWhenNotKept ==
    \A p \in Procs :
        max_changesets[p] <= 0 =>
            /\ local[p].changes_fd = -1
            /\ archived[p] = <<>>
            /\ ~TouchedChanges(p)
            /\ \A path \in DOMAIN fs[db_dir[p]] : ~IsChangesPath(path)

\* a call with a negative max_changesets that applied two chunks and returned
C11_Witness ==
    /\ max_changesets[1] < 0
    /\ pc[1] = "Done"
    /\ Dispatched(1) = 2

\* two replicators, each on its own copy of the database, given the same
\* message and the same valid flag; only the second keeps changesets
Paired == db_dir[1] # db_dir[2]

IsTableOp(o) == o.op # "archive" /\ ~IsChangesPath(o.path)

\* what the call did to the base, temporary and data files, in order
TableOps(p) == SelectSeq(ops[p], IsTableOp)

IsPrefix(s, t) == Len(s) <= Len(t) /\ SubSeq(t, 1, Len(s)) = s

\* no file operation of the call failed and no read of it timed out
Undisturbed(p) == ~faulted[p] /\ err[p].class # "NetworkTimeoutError"

\* C12: of two calls given the same message, the same table files and the
\* same valid flag, one with max_changesets = 0 and one with max_changesets
\* > 0, neither disturbed by a failing file operation or a timeout: the
\* second makes the table-file operations of the first, in the same order,
\* and ends as the first did, with the same result or the same error and the
\* same base and data files.
C12_ArchivalChangesNothingElse ==
    (Paired /\ Undisturbed(1) /\ Undisturbed(2) /\ Ended(1)) =>
        /\ IsPrefix(TableOps(2), TableOps(1))
        /\ Ended(2) =>
              /\ pc[2] = pc[1]
              /\ result[2] = result[1]
              /\ err[2] = err[1]
              /\ TableOps(2) = TableOps(1)
              /\ TableFiles(fs[db_dir[2]]) = TableFiles(fs[db_dir[1]])

\* both calls returned, having applied a block chunk and a base chunk; the
\* second archived the message
C12_Witness ==
    /\ Paired
    /\ cs.chunks = <<BlocksB, BaseA2>>
    /\ pc[1] = "Done" /\ pc[2] = "Done"
    /\ max_changesets[1] = 0 /\ archived[1] = <<>>
    /\ archived[2] = stream
    /\ TableFiles(fs[2]) # InitialFiles

\* the changeset is the same base chunk, twice
SameBaseTwice ==
    /\ Len(cs.chunks) = 2
    /\ cs.chunks[1] = cs.chunks[2]
    /\ cs.chunks[1].type = 1

\* the renames of a temporary file onto a base file the call has made
Renames(p) == Cardinality({i \in 1..Len(ops[p]) : ops[p][i].op = "rename"})

\* between two chunks, or past the last
BetweenChunks(p) == pc[p] \in {"chunk_head", "footer", "Done"}

\* C13: when a changeset holds the same base chunk twice in succession, the
\* base file holds the bytes of the chunk from the first rename on, all
\* through the second application, and the table files after the second
\* application are those after the first.
C13_BaseChunkIdempotent ==
    \A p \in Procs :
        (SameBaseTwice /\ ~Paired /\ pc[2] = "idle") =>
            LET c == cs.chunks[1]
                once == ApplyChunk(InitialFiles, c)
            IN  /\ Renames(p) >= 1 =>
                      fs[db_dir[p]][BasePath(c.name, c.letter)] = c.content
                /\ (Renames(p) = 1 /\ Dispatched(p) = 1 /\ BetweenChunks(p)) =>
                      TableFiles(fs[db_dir[p]]) = once
                /\ (Renames(p) = 2 /\ BetweenChunks(p)) =>
                      TableFiles(fs[db_dir[p]]) = once

\* the chunk was applied twice and the call returned
C13_Witness ==
    /\ SameBaseTwice
    /\ cs.chunks[1] = BaseA
    /\ pc[1] = "Done"
    /\ Renames(1) = 2
    /\ fs[1][BasePath(TableA, LetterA)] = <<11, 12>>

\* the message goes on after the required revision
TrailingBytes == cs.cut < 0 /\ cs.junk # <<>>

\* C14: a call that returns returns the required revision of the footer,
\* packed again, and has read the whole message, which ended with the
\* required revision; a message with bytes after the required revision never
\* makes the call return, and ends it with a NetworkError unless the lock was
\* refused or a file operation failed first.
C14_ResultIsRequiredRevision ==
    \A p \in Procs :
        /\ pc[p] = "Done" =>
              /\ result[p] = F_pack_uint(cs.reqrev)
              /\ F_unpack_uint(result[p]).val = cs.reqrev
              /\ ~TrailingBytes
              /\ pos[p] = Len(stream)
              /\ stream = EncodeHeader(cs) \o EncodeChunks(cs.chunks) \o <<0>> \o
                             F_pack_uint(cs.reqrev)
        /\ TrailingBytes =>
              /\ pc[p] # "Done"
              /\ result[p] = <<>>
              /\ (Ended(p) /\ ~faulted[p] /\ err[p].class # "DatabaseLockError")
                    => IsNetworkError(err[p])
              /\ (pc[p] = "Failed" /\ Undisturbed(p) /\ pos[p] = Len(stream)
                    /\ cs.reqrev >= cs.endrev /\ err[p].class = "NetworkError"
                    /\ ~(valid[p] /\ RevisionMismatch(p)))
                    => err[p].msg = "Junk found at end of changeset"

\* the required revision takes two bytes and one more byte follows it: the
\* chunk was applied and the call failed on the junk
C14_Witness ==
    /\ cs.reqrev = 200 /\ cs.junk = <<7>>
    /\ pc[1] = "Failed"
    /\ err[1] = [class |-> "NetworkError", msg |-> "Junk found at end of changeset"]
    /\ fs[1][BasePath(TableA, LetterA)] = <<11, 12>>

\* a table name that is empty or has a character other than a to z
BadName(name) == name = <<>> \/ \E i \in 1..Len(name) : name[i] < 97 \/ name[i] > 122

HasBadName == \E i \in 1..Len(cs.chunks) : BadName(cs.chunks[i].name)

\* the position of the first chunk with such a name
FirstBadName ==
    CHOOSE i \in 1..Len(cs.chunks) :
        /\ BadName(cs.chunks[i].name)
        /\ \A k \in 1..(i - 1) : ~BadName(cs.chunks[k].name)

\* the files a chunk for the table name would open or create
FilesOf(name) ==
    {TmpPath(name), DbPath(name), BasePath(name, LetterA), BasePath(name, LetterB)}

NameErrors ==
    {"Missing tablename in changeset", "Invalid character in tablename in changeset"}

\* C15: a chunk with a non-zero tag whose table name is empty or has a
\* character other than a to z is never dispatched: the call never returns,
\* no file named after it exists or is operated on, and a call that comes to
\* the chunk ends there with a NetworkError, the table files being what the
\* chunks before it left.
C15_BadTableNameRejected ==
    \A p \in Procs :
        HasBadName =>
            LET c == cs.chunks[FirstBadName]
            IN  /\ c.type # 0
                /\ pc[p] # "Done"
                /\ Dispatched(p) < FirstBadName
                /\ \A i \in 1..Len(ops[p]) :
                      /\ ops[p][i].op = "dispatch" => ~BadName(ops[p][i].path)
                      /\ ops[p][i].path \notin FilesOf(c.name)
                /\ DOMAIN fs[db_dir[p]] \cap FilesOf(c.name) = {}
                /\ err[p].msg \in NameErrors =>
                      /\ pc[p] = "Failed" /\ err[p].class = "NetworkError"
                      /\ (c.name = <<>>) = (err[p].msg = "Missing tablename in changeset")
                      /\ Dispatched(p) = FirstBadName - 1
                      /\ NoRenameFailed(p) =>
                            TableFiles(fs[db_dir[p]]) =
                               ApplyChunks(InitialFiles,
                                           SubSeq(cs.chunks, 1, FirstBadName - 1))
                /\ (pc[p] = "Failed" /\ err[p].class = "NetworkError"
                      /\ ~(valid[p] /\ RevisionMismatch(p)))
                      => err[p].msg \in NameErrors

\* a block chunk for the table "`" after a block chunk that was applied
C15_Witness ==
    /\ cs.chunks = <<BlocksA, BlockChunk(<<96>>, <<1>>)>>
    /\ pc[1] = "Failed"
    /\ err[1].msg = "Invalid character in tablename in changeset"
    /\ fs[1][DbPath(TableA)] = <<24, 25, 26, 27, 5>>
    /\ Last(ops[1]).op = "sync"

\* the base files a changeset of the family can name
BasePaths == {BasePath(n, l) : n \in {TableA, TableB}, l \in {LetterA, LetterB}}

\* what is visible at a path: <<content>>, or <<>> when there is no file
Visible(dir, path) == IF Exists(dir, path) THEN <<dir[path]>> ELSE <<>>

\* the last two operations of p on table files wrote data to the temporary
\* file of the table, whole, and called io_sync on it
WrittenAndSynced(p, tablename, data) ==
    LET t == TableOps(p)
        n == Len(t)
    IN  /\ n >= 3
        /\ t[n - 2] = Op("create", TmpPath(tablename), 0, <<>>)
        /\ t[n - 1] = Op("write", TmpPath(tablename), 0, data)
        /\ t[n].op = "sync" /\ t[n].path = TmpPath(tablename)

\* C16: whatever step is taken, by whatever caller, also one that fails, what
\* is visible at a base file path stays as it was, unless the step is the
\* rename of a base chunk for that path, which comes after the temporary file
\* was written whole and io_sync was called on it, and then the path holds
\* exactly the bytes the chunk declared.
C16_BaseFileOldOrComplete ==
    [][\A d \in Dirs : \A q \in BasePaths :
          Visible(fs'[d], q) # Visible(fs[d], q) =>
             \E p \in Procs :
                LET c == CurrentChunk(p)
                IN  /\ db_dir[p] = d
                    /\ pc[p] = "base_rename"
                    /\ c.type = 1
                    /\ q = BasePath(c.name, c.letter)
                    /\ local[p].base_size = Len(c.content)
                    /\ WrittenAndSynced(p, c.name, c.content)
                    /\ Visible(fs'[d], q) = <<c.content>>]_vars

\* the write of the temporary file stopped after one byte of two: the call
\* failed and the base file holds what it held
C16_Witness ==
    /\ cs = Good0
    /\ pc[1] = "Failed"
    /\ err[1].msg = "Error writing to file"
    /\ Visible(fs[1], TmpPath(TableA)) = <<<<11>>>>
    /\ Visible(fs[1], BasePath(TableA, LetterA)) = <<<<9, 9, 9>>>>

\* a changeset whose only defect is a type other than 0
UnsupportedType ==
    /\ cs.kind # 0
    /\ cs.cut < 0
    /\ cs.magic = CHANGES_MAGIC_STRING /\ cs.version = CHANGES_VERSION
    /\ cs.endrev > cs.startrev

\* the call ended by itself: the lock was granted, no file operation failed
\* and no read timed out
EndedUndisturbed(p) ==
    Ended(p) /\ Undisturbed(p) /\ err[p].class # "DatabaseLockError"

\* C17 as stated: a changeset of an unsupported type ends the call with the
\* unsupported-type error whatever valid and the revision of the database
\* are, and the revision of the database is not read.
C17_TypeCheckedBeforeRevision ==
    \A p \in Procs :
        UnsupportedType =>
            /\ ~ReadRevision(p)
            /\ EndedUndisturbed(p) => err[p].msg = "Unsupported changeset type"

\* C17, amended: the changeset type is checked after the revision.  A
\* changeset of an unsupported type never reaches the chunk loop and changes
\* no table file; with valid set the revision of the database is read, and
\* when it differs from the start revision the call ends with the
\* wrong-revision error; otherwise the call ends with the unsupported-type
\* error.  The changeset file has been created by then when changesets are
\* kept.
C17_TypeCheckedAfterRevision ==
    \A p \in Procs :
        UnsupportedType =>
            /\ pc[p] \in {"idle", "start", "get_type", "read_header", "create_changes",
                          "check_revision", "check_type", "Failed"}
            /\ TableFiles(fs[db_dir[p]]) = InitialFiles
            /\ archived[p] = <<>>
            /\ pc[p] = "check_type" => ReadRevision(p) = valid[p]
            /\ EndedUndisturbed(p) =>
                  /\ err[p].class = "NetworkError"
                  /\ ReadRevision(p) = valid[p]
                  /\ err[p].msg =
                        IF valid[p] /\ RevisionMismatch(p)
                        THEN "Changeset supplied is for wrong revision number"
                        ELSE "Unsupported changeset type"
                  /\ Exists(fs[db_dir[p]], ChangesPath(cs.startrev))
                        = (max_changesets[p] > 0)

\* valid, a database at another revision, changesets kept: the revision was
\* read, the call ended with the wrong-revision error and left an empty
\* changeset file
C17_Witness ==
    /\ UnsupportedType
    /\ valid[1] /\ RevisionMismatch(1)
    /\ max_changesets[1] > 0
    /\ pc[1] = "Failed"
    /\ err[1].msg = "Changeset supplied is for wrong revision number"
    /\ ReadRevision(1)
    /\ Visible(fs[1], ChangesPath(cs.startrev)) = << <<>> >>

\* the call of p writes to a changeset file
Keeps(p) == max_changesets[p] > 0 /\ local[p].changes_fd # -1

\* the step of p is the rename of a base chunk's temporary file, made or
\* reported as failed
RenameStep(p) == NewOp(p) /\ Last(ops'[p]).op \in {"rename", "rename_failed"}

\* the step of p is the write of one whole block into the data file
BlockWriteStep(p) ==
    /\ pc[p] = "block_write"
    /\ NewOp(p)
    /\ Last(ops'[p]).op = "write"
    /\ Len(Last(ops'[p]).data) = local[p].changeset_blocksize

\* what was read and not yet archived is in buf, in order
MirroredInOrder ==
    \A p \in Procs :
        (Keeps(p) /\ Running(p)) => archived[p] \o buf[p] = Take(stream, pos[p])

\* the content of a base chunk is in the changeset file when the rename is made
BaseArchivedBeforeRename ==
    \A p \in Procs :
        (Keeps(p) /\ RenameStep(p)) =>
            EndsWith(archived[p], CurrentChunk(p).content)

\* C18 as stated: with changesets kept, the content of a base chunk is in the
\* changeset file no later than the rename, and the bytes of a block are in
\* the changeset file no later than the write of the block to the data file.
C18_ArchivedBeforeActedOn ==
    /\ []MirroredInOrder
    /\ [][BaseArchivedBeforeRename]_vars
    /\ [][\A p \in Procs :
             (Keeps(p) /\ BlockWriteStep(p)) =>
                EndsWith(archived'[p], Last(ops'[p]).data)]_vars

\* C18, amended: with changesets kept, what was read is archived in order,
\* nothing lost; the content of a base chunk is in the changeset file before
\* the rename; a block is written to the data file first, its bytes being
\* still in buf and not in the changeset file, and is appended to the
\* changeset file by the next step of the call, before the next block number
\* is read.
C18_BlockArchivedAfterWrite ==
    /\ []MirroredInOrder
    /\ [][BaseArchivedBeforeRename]_vars
    /\ [][\A p \in Procs :
             (Keeps(p) /\ BlockWriteStep(p)) =>
                /\ archived'[p] = archived[p]
                /\ Take(buf'[p], local[p].changeset_blocksize) = Last(ops'[p]).data
                /\ pc'[p] = "block_archive"]_vars
    /\ [][\A p \in Procs :
             (Keeps(p) /\ pc[p] = "block_archive" /\ pc'[p] = "block_number") =>
                /\ archived'[p] = archived[p] \o Last(TableOps(p)).data
                /\ pos'[p] = pos[p]]_vars

\* the first block of the chunk is in the data file and not yet in the
\* changeset file
C18_Witness ==
    /\ cs = Good2
    /\ Keeps(1)
    /\ pc[1] = "block_archive"
    /\ fs[1][DbPath(TableA)] = <<1, 2, 22, 23, 5>>
    /\ Take(buf[1], 2) = <<22, 23>>
    /\ ~EndsWith(archived[1], <<22, 23>>)

\* the table files after the changeset is applied once, start to end, to the
\* files the database had
AppliedOnce == ApplyChunks(InitialFiles, cs.chunks)

\* caller 2 is given the changeset for the database of caller 1
SameDatabase == db_dir[1] = db_dir[2]

\* C19: a call that goes through a changeset start to end, on the database
\* as it was, leaves the table files AppliedOnce; and when the call of
\* caller 1 is cut short by an error or a timeout, whatever it had written,
\* a call of caller 2 with valid = false that then goes through the same
\* changeset on the same database leaves the same table files.
C19_ReapplyAfterAbort ==
    /\ \A p \in Procs :
          (pc[p] = "Done" /\ \A q \in Procs \ {p} :
                                db_dir[q] # db_dir[p] \/ TableOps(q) = <<>>)
             => TableFiles(fs[db_dir[p]]) = AppliedOnce
    /\ (SameDatabase /\ pc[1] = "Failed" /\ pc[2] = "Done" /\ ~valid[2])
          => TableFiles(fs[db_dir[2]]) = AppliedOnce

\* caller 1 was cut short in the middle of the first block, one byte of it
\* being in the file it created, past a gap; caller 2 then applied the
\* changeset
C19_Witness ==
    /\ SameDatabase
    /\ cs.chunks = <<BlockChunk(TableB, <<3, 3>>)>>
    /\ pc[1] = "Failed"
    /\ TableOps(1) # <<>>
    /\ Last(TableOps(1)) = Op("write", DbPath(TableB), 4, <<22>>)
    /\ pc[2] = "Done" /\ ~valid[2]
    /\ Visible(fs[1], DbPath(TableB)) = << <<0, 0, 0, 0, 24, 25>> >>

\* where in ops[p] the chunk dispatched last begins
LastDispatch(p) ==
    CHOOSE i \in 1..Len(ops[p]) :
        /\ ops[p][i].op = "dispatch"
        /\ \A k \in (i + 1)..Len(ops[p]) : ops[p][k].op # "dispatch"

\* what the call did to table files for the chunk dispatched last
ChunkOps(p) ==
    SelectSeq(SubSeq(ops[p], LastDispatch(p) + 1, Len(ops[p])), IsTableOp)

\* the chunk dispatched last is a block chunk
LastIsBlockChunk(p) == Dispatched(p) >= 1 /\ ops[p][LastDispatch(p)].at = 2

Syncs(s) == Cardinality({i \in 1..Len(s) : s[i].op = "sync"})

\* inside process_changeset_chunk_blocks
InBlocks(p) ==
    pc[p] \in {"blocks_header", "blocks_open", "block_number", "block_read",
               "block_write", "block_archive", "blocks_sync"}

\* the whole blocks written for the chunk, as <<number, bytes>>
BlocksWritten(s, blocksize) ==
    LET w == SelectSeq(s, LAMBDA o : o.op = "write" /\ Len(o.data) = blocksize)
    IN  [k \in 1..Len(w) |-> <<(w[k].at \div blocksize) + 1, w[k].data>>]

\* the blocks written so far are in the data file, on what it held when the
\* chunk opened it
WrittenBlocksInPlace(p) ==
    LET s == ChunkOps(p)
        c == CurrentChunk(p)
    IN  (s # <<>> /\ s[1].op \in {"open", "create"}
           /\ \A i \in 2..Len(s) : s[i].op = "write" /\ Len(s[i].data) = c.blocksize)
          => fs[db_dir[p]][DbPath(c.name)] =
                ExpectedBlocks(s[1].data, c.blocksize, BlocksWritten(s, c.blocksize))

\* C20: io_sync is called on the data file once for a block chunk, as the
\* last operation of the chunk, after the number 0 was read; it is not called
\* while blocks are read and written; and when the chunk fails part-way it
\* was not called, the blocks written until then being in the file.
C20_OneSyncPerBlockChunk ==
    /\ [](\A p \in Procs :
            LastIsBlockChunk(p) =>
               LET s == ChunkOps(p)
               IN  /\ Syncs(s) <= 1
                   /\ InBlocks(p) => Syncs(s) = 0
                   /\ pc[p] \in {"chunk_head", "footer", "Done"} =>
                         /\ Syncs(s) = 1
                         /\ Last(s).op = "sync"
                         /\ Last(s).path = DbPath(CurrentChunk(p).name)
                   /\ Syncs(s) = 1 => Last(s).op = "sync")
    /\ [][\A p \in Procs :
             (pc[p] # "blocks_sync" /\ pc'[p] = "blocks_sync") =>
                /\ pc[p] = "block_number"
                /\ stream[pos'[p] - Len(buf'[p])] = 0]_vars
    /\ [][\A p \in Procs :
             (InBlocks(p) /\ pc'[p] = "Failed") =>
                /\ Syncs(ops'[p]) = Syncs(ops[p])
                /\ WrittenBlocksInPlace(p)']_vars

\* the message ends after the first block of the chunk: the call failed at
\* the next block number, the block is in the data file, io_sync was not
\* called on it
C20_Witness ==
    /\ cs = [Good2 EXCEPT !.cut = 20]
    /\ pc[1] = "Failed"
    /\ err[1].msg = "Invalid block number in changeset"
    /\ LastIsBlockChunk(1)
    /\ Syncs(ChunkOps(1)) = 0
    /\ Visible(fs[1], DbPath(TableA)) = << <<1, 2, 22, 23, 5>> >>

=============================================================================
